---- MODULE Spec2Model ----
(***************************************************************************)
(* Model of src/Voorraadbeheer.py: Batch, Product (a LIFO stack of         *)
(* batches) and InventoryManager (an insertion-ordered dict of products,   *)
(* with CSV persistence).                                                  *)
(*                                                                         *)
(* Money amounts (holding_cost, stockout_penalty) are modelled as integer  *)
(* multiples of a cost unit; cost_per_unit is a float modelled in tenths   *)
(* (25 is 2.5), so that its text form has an integer part, a point and a   *)
(* fraction digit.                                                         *)
(***************************************************************************)
EXTENDS Integers, Sequences, FiniteSets, TLC

VARIABLES
  products,   \* InventoryManager.products: the dict, as the sequence of its values in insertion order
  file,       \* the CSV file on disk: NoFile or a sequence of rows
  saved,      \* history: the products whose save_to_csv wrote the current file (None when there is none)
  pc,         \* the caller: "idle" between calls, "returned" when a call has just returned
  op,         \* the call that returned, [name |-> ..., args |-> <<...>>]
  pre,        \* products at the start of that call
  ret,        \* the value it returned
  out         \* the messages it printed, in order

vars == <<products, file, saved, pc, op, pre, ret, out>>

\* ---------------------------------------------------------------- bounds
MaxQty == 2        \* largest quantity a batch is created with
MaxBatches == 2    \* batches in the whole inventory of a manager
MaxStack == 3      \* batches of the product of SpecProduct
MaxDemand == 3     \* largest demand asked of one product

\* ---------------------------------------------------------------- inputs
Names == {"A", "B"}
ProductParams == {<<1, 3>>, <<2, 5>>}   \* <<holding_cost, stockout_penalty>>
Quantities == 0 .. MaxQty
Costs == {20, 125}                  \* 2.0 and 12.5
Demands == 0 .. MaxDemand

None == "None"
NoFile == "NoFile"

\* ---------------------------------------------------------------- Batch
Batch(quantity, cost_per_unit) ==
  [quantity |-> quantity, cost_per_unit |-> cost_per_unit]

\* ---------------------------------------------------------------- Product
Product(product_name, holding_cost, stockout_penalty) ==
  [product_name |-> product_name, holding_cost |-> holding_cost,
   stockout_penalty |-> stockout_penalty, batches |-> <<>>]

\* mutant: the batches are kept newest first
add_batch_front(self, quantity, cost_per_unit) ==
  [self EXCEPT !.batches = <<Batch(quantity, cost_per_unit)>> \o @]

add_batch(self, quantity, cost_per_unit) ==
  [self EXCEPT !.batches = Append(@, Batch(quantity, cost_per_unit))]

\* mutant: the need is taken from the newest batch without comparing it with
\* what the batch holds
RECURSIVE fulfill_loop_overdraw(_, _, _)
fulfill_loop_overdraw(batches, fulfilled, demand) ==
  IF fulfilled < demand /\ batches # <<>>
  THEN LET n == Len(batches)
           quantity == batches[n].quantity - (demand - fulfilled)
       IN [batches |-> IF quantity = 0 THEN SubSeq(batches, 1, n - 1)
                       ELSE [batches EXCEPT ![n].quantity = quantity],
           fulfilled |-> demand]
  ELSE [batches |-> batches, fulfilled |-> fulfilled]

\* mutant: a batch that the need empties exactly is left in place with quantity 0
RECURSIVE fulfill_loop_keep_empty(_, _, _)
fulfill_loop_keep_empty(batches, fulfilled, demand) ==
  IF fulfilled < demand /\ batches # <<>>
  THEN LET n == Len(batches)
           last_batch == batches[n]
       IN IF last_batch.quantity >= demand - fulfilled
          THEN [batches |-> [batches EXCEPT ![n].quantity = @ - (demand - fulfilled)],
                fulfilled |-> demand]
          ELSE fulfill_loop_keep_empty(SubSeq(batches, 1, n - 1),
                                       fulfilled + last_batch.quantity, demand)
  ELSE [batches |-> batches, fulfilled |-> fulfilled]

\* mutant: a batch that covers the need is popped whole, its remainder lost
RECURSIVE fulfill_loop_drop_partial(_, _, _)
fulfill_loop_drop_partial(batches, fulfilled, demand) ==
  IF fulfilled < demand /\ batches # <<>>
  THEN LET n == Len(batches)
           last_batch == batches[n]
       IN IF last_batch.quantity >= demand - fulfilled
          THEN [batches |-> SubSeq(batches, 1, n - 1), fulfilled |-> demand]
          ELSE fulfill_loop_drop_partial(SubSeq(batches, 1, n - 1),
                                         fulfilled + last_batch.quantity, demand)
  ELSE [batches |-> batches, fulfilled |-> fulfilled]

\* mutant: the loop takes from the oldest batch (FIFO) instead of the newest
RECURSIVE fulfill_loop_fifo(_, _, _)
fulfill_loop_fifo(batches, fulfilled, demand) ==
  IF fulfilled < demand /\ batches # <<>>
  THEN LET first_batch == batches[1]
       IN IF first_batch.quantity >= demand - fulfilled
          THEN LET quantity == first_batch.quantity - (demand - fulfilled)
               IN [batches |-> IF quantity = 0 THEN Tail(batches)
                               ELSE [batches EXCEPT ![1].quantity = quantity],
                   fulfilled |-> demand]
          ELSE fulfill_loop_fifo(Tail(batches), fulfilled + first_batch.quantity, demand)
  ELSE [batches |-> batches, fulfilled |-> fulfilled]

\* mutant: the loop also pops a newest batch of quantity 0 once the demand is met
RECURSIVE fulfill_loop_sweep(_, _, _)
fulfill_loop_sweep(batches, fulfilled, demand) ==
  IF batches # <<>> /\ (fulfilled < demand \/ batches[Len(batches)].quantity = 0)
  THEN LET n == Len(batches)
           last_batch == batches[n]
       IN IF last_batch.quantity >= demand - fulfilled
          THEN LET quantity == last_batch.quantity - (demand - fulfilled)
               IN IF quantity = 0
                  THEN fulfill_loop_sweep(SubSeq(batches, 1, n - 1), demand, demand)
                  ELSE [batches |-> [batches EXCEPT ![n].quantity = quantity],
                        fulfilled |-> demand]
          ELSE fulfill_loop_sweep(SubSeq(batches, 1, n - 1),
                                  fulfilled + last_batch.quantity, demand)
  ELSE [batches |-> batches, fulfilled |-> fulfilled]

\* the while loop of fulfill_demand: the batches and `fulfilled` at loop exit
RECURSIVE fulfill_loop(_, _, _)
fulfill_loop(batches, fulfilled, demand) ==
  IF fulfilled < demand /\ batches # <<>>
  THEN LET n == Len(batches)
           last_batch == batches[n]
       IN IF last_batch.quantity >= demand - fulfilled
          THEN LET quantity == last_batch.quantity - (demand - fulfilled)
                   kept == IF quantity = 0
                           THEN SubSeq(batches, 1, n - 1)
                           ELSE [batches EXCEPT ![n].quantity = quantity]
               IN fulfill_loop(kept, demand, demand)
          ELSE fulfill_loop(SubSeq(batches, 1, n - 1),
                            fulfilled + last_batch.quantity, demand)
  ELSE [batches |-> batches, fulfilled |-> fulfilled]

\* mutant: the penalty is charged on the whole demand, not on the unmet part
fulfill_demand_whole(self, demand) ==
  LET r == fulfill_loop(self.batches, 0, demand)
  IN [self |-> [self EXCEPT !.batches = r.batches],
      ret |-> IF r.fulfilled < demand THEN demand * self.stockout_penalty ELSE 0]

\* mutant: a batch that does not cover the need is taken one unit per iteration
fulfill_iteration_by_unit(batches, fulfilled, demand) ==
  LET n == Len(batches)
      last_batch == batches[n]
  IN IF last_batch.quantity >= demand - fulfilled
     THEN LET quantity == last_batch.quantity - (demand - fulfilled)
          IN [batches |-> IF quantity = 0 THEN SubSeq(batches, 1, n - 1)
                          ELSE [batches EXCEPT ![n].quantity = quantity],
              fulfilled |-> demand]
     ELSE IF last_batch.quantity <= 1
     THEN [batches |-> SubSeq(batches, 1, n - 1),
           fulfilled |-> fulfilled + last_batch.quantity]
     ELSE [batches |-> [batches EXCEPT ![n].quantity = @ - 1],
           fulfilled |-> fulfilled + 1]

\* one iteration of the while loop of fulfill_demand (its body)
fulfill_iteration(batches, fulfilled, demand) ==
  LET n == Len(batches)
      last_batch == batches[n]
  IN IF last_batch.quantity >= demand - fulfilled
     THEN LET quantity == last_batch.quantity - (demand - fulfilled)
          IN [batches |-> IF quantity = 0 THEN SubSeq(batches, 1, n - 1)
                          ELSE [batches EXCEPT ![n].quantity = quantity],
              fulfilled |-> demand]
     ELSE [batches |-> SubSeq(batches, 1, n - 1),
           fulfilled |-> fulfilled + last_batch.quantity]

\* the states of the while loop of fulfill_demand, from its entry to its
\* exit, one per evaluation of the loop condition
RECURSIVE fulfill_trace(_, _, _)
fulfill_trace(batches, fulfilled, demand) ==
  <<[batches |-> batches, fulfilled |-> fulfilled]>>
  \o (IF fulfilled < demand /\ batches # <<>>
      THEN LET s == fulfill_iteration(batches, fulfilled, demand)
           IN fulfill_trace(s.batches, s.fulfilled, demand)
      ELSE <<>>)

\* fulfill_demand: the product afterwards and the stockout cost returned
fulfill_demand(self, demand) ==
  LET r == fulfill_loop(self.batches, 0, demand)
  IN [self |-> [self EXCEPT !.batches = r.batches],
      ret |-> IF r.fulfilled < demand
              THEN (demand - r.fulfilled) * self.stockout_penalty
              ELSE 0]

\* mutant: each batch is charged at its own cost_per_unit
RECURSIVE holding_loop_batch_cost(_, _, _)
holding_loop_batch_cost(batches, holding_cost, total_holding_cost) ==
  IF batches = <<>> THEN total_holding_cost
  ELSE holding_loop_batch_cost(Tail(batches), holding_cost,
         total_holding_cost + Head(batches).quantity * Head(batches).cost_per_unit)

RECURSIVE holding_loop(_, _, _)
holding_loop(batches, holding_cost, total_holding_cost) ==
  IF batches = <<>> THEN total_holding_cost
  ELSE holding_loop(Tail(batches), holding_cost,
                    total_holding_cost + Head(batches).quantity * holding_cost)

calculate_holding_cost(self) == holding_loop(self.batches, self.holding_cost, 0)

\* ---------------------------------------------------------------- dict helpers
Keys(prods) == {prods[i].product_name : i \in 1 .. Len(prods)}
IndexOf(prods, name) == CHOOSE i \in 1 .. Len(prods) : prods[i].product_name = name
Get(prods, name) == prods[IndexOf(prods, name)]

\* number of batches in the whole inventory
RECURSIVE TotalBatches(_)
TotalBatches(prods) ==
  IF prods = <<>> THEN 0 ELSE Len(Head(prods).batches) + TotalBatches(Tail(prods))

NoCall == [name |-> "", args |-> <<>>]

\* the caller makes a call: it is between calls, and the call's name, arguments
\* and the products it starts from are kept until the caller goes on
Call(name, args) ==
  /\ pc = "idle"
  /\ pc' = "returned"
  /\ op' = [name |-> name, args |-> args]
  /\ pre' = products

\* the caller goes on to its next statement; the returned value and the
\* printed messages are dropped
Resume ==
  /\ pc = "returned"
  /\ pc' = "idle"
  /\ op' = NoCall
  /\ pre' = <<>>
  /\ ret' = None
  /\ out' = <<>>
  /\ UNCHANGED <<products, file, saved>>

Init ==
  /\ products = <<>>
  /\ file = NoFile
  /\ saved = None
  /\ pc = "idle"
  /\ op = NoCall
  /\ pre = <<>>
  /\ ret = None
  /\ out = <<>>

\* ---------------------------------------------------------------- InventoryManager
\* mutant: a registered name is registered again, over the existing product
add_product_overwrite(product_name, holding_cost, stockout_penalty) ==
  /\ Call("add_product", <<product_name, holding_cost, stockout_penalty>>)
  /\ IF product_name \in Keys(products)
     THEN products' = [products EXCEPT ![IndexOf(products, product_name)] =
                         Product(product_name, holding_cost, stockout_penalty)]
     ELSE products' = Append(products, Product(product_name, holding_cost, stockout_penalty))
  /\ out' = <<"added">>
  /\ ret' = None
  /\ UNCHANGED <<file, saved>>

add_product(product_name, holding_cost, stockout_penalty) ==
  /\ Call("add_product", <<product_name, holding_cost, stockout_penalty>>)
  /\ IF product_name \in Keys(products)
     THEN /\ products' = products
          /\ out' = <<"exists">>
     ELSE /\ products' = Append(products, Product(product_name, holding_cost, stockout_penalty))
          /\ out' = <<"added">>
  /\ ret' = None
  /\ UNCHANGED <<file, saved>>

\* mutant: an unknown name is registered on the fly and given the batch
restock_product_create(product_name, quantity, cost_per_unit) ==
  /\ Call("restock_product", <<product_name, quantity, cost_per_unit>>)
  /\ TotalBatches(products) < MaxBatches
  /\ IF product_name \notin Keys(products)
     THEN products' = Append(products, add_batch(Product(product_name, 0, 0),
                                                 quantity, cost_per_unit))
     ELSE products' = [products EXCEPT ![IndexOf(products, product_name)] =
                         add_batch(@, quantity, cost_per_unit)]
  /\ out' = <<"restocked">>
  /\ ret' = None
  /\ UNCHANGED <<file, saved>>

restock_product(product_name, quantity, cost_per_unit) ==
  /\ Call("restock_product", <<product_name, quantity, cost_per_unit>>)
  /\ product_name \in Keys(products) => TotalBatches(products) < MaxBatches
  /\ IF product_name \notin Keys(products)
     THEN /\ products' = products
          /\ out' = <<"not found">>
     ELSE /\ products' = [products EXCEPT ![IndexOf(products, product_name)] =
                            add_batch(@, quantity, cost_per_unit)]
          /\ out' = <<"restocked">>
  /\ ret' = None
  /\ UNCHANGED <<file, saved>>

\* the first loop of simulate_day, over self.products.values()
RECURSIVE holding_total(_, _)
holding_total(prods, total_holding_costs) ==
  IF prods = <<>> THEN total_holding_costs
  ELSE holding_total(Tail(prods), total_holding_costs + calculate_holding_cost(Head(prods)))

\* mutant: the loop stops at the first name that is not registered
RECURSIVE demand_loop_break(_, _, _)
demand_loop_break(prods, items, total_stockout_costs) ==
  IF items = <<>> \/ Head(items)[1] \notin Keys(prods)
  THEN [products |-> prods, total |-> total_stockout_costs]
  ELSE LET r == fulfill_demand(Get(prods, Head(items)[1]), Head(items)[2])
       IN demand_loop_break([prods EXCEPT ![IndexOf(prods, Head(items)[1])] = r.self],
                            Tail(items), total_stockout_costs + r.ret)

\* mutant: the demand of a registered name is taken from the first product
RECURSIVE demand_loop_first_product(_, _, _)
demand_loop_first_product(prods, items, total_stockout_costs) ==
  IF items = <<>> THEN [products |-> prods, total |-> total_stockout_costs]
  ELSE IF Head(items)[1] \in Keys(prods)
  THEN LET r == fulfill_demand(prods[1], Head(items)[2])
       IN demand_loop_first_product([prods EXCEPT ![1] = r.self],
                                    Tail(items), total_stockout_costs + r.ret)
  ELSE demand_loop_first_product(prods, Tail(items), total_stockout_costs)

\* the second loop of simulate_day, over demand.items(); items is the
\* sequence of <<product_name, demand_amount>> pairs of the dict
RECURSIVE demand_loop(_, _, _)
demand_loop(prods, items, total_stockout_costs) ==
  IF items = <<>> THEN [products |-> prods, total |-> total_stockout_costs]
  ELSE LET product_name == Head(items)[1]
           demand_amount == Head(items)[2]
       IN IF product_name \in Keys(prods)
          THEN LET r == fulfill_demand(Get(prods, product_name), demand_amount)
               IN demand_loop([prods EXCEPT ![IndexOf(prods, product_name)] = r.self],
                              Tail(items), total_stockout_costs + r.ret)
          ELSE demand_loop(prods, Tail(items), total_stockout_costs)

\* mutant: the holding cost is summed after the depletion
simulate_day_holding_last(demand) ==
  /\ Call("simulate_day", <<demand>>)
  /\ LET r == demand_loop(products, demand, 0)
     IN /\ products' = r.products
        /\ ret' = <<holding_total(r.products, 0), r.total>>
  /\ out' = <<>>
  /\ UNCHANGED <<file, saved>>

simulate_day(demand) ==
  /\ Call("simulate_day", <<demand>>)
  /\ LET total_holding_costs == holding_total(products, 0)
         r == demand_loop(products, demand, 0)
     IN /\ products' = r.products
        /\ ret' = <<total_holding_costs, r.total>>
  /\ out' = <<>>
  /\ UNCHANGED <<file, saved>>

\* ---------------------------------------------------------------- CSV text
\* A text is a sequence of characters, a row a sequence of fields: the product
\* name as it is, the numbers as texts.
DigitChars == <<"0", "1", "2", "3", "4", "5", "6", "7", "8", "9">>
\* what int() and float() give: the number, or a ValueError
Parsed(value) == [ok |-> TRUE, value |-> value]
ValueError == [ok |-> FALSE, value |-> 0]

IsDigits(text) ==
  \A i \in 1 .. Len(text) : \E d \in 1 .. 10 : text[i] = DigitChars[d]

DigitValue(char) == (CHOOSE d \in 1 .. 10 : DigitChars[d] = char) - 1

\* str() of a non-negative int
RECURSIVE IntStr(_)
IntStr(n) ==
  IF n < 10 THEN <<DigitChars[n + 1]>>
  ELSE IntStr(n \div 10) \o <<DigitChars[(n % 10) + 1]>>

\* str() of a float with one fraction digit, given in tenths: 125 is "12.5"
FloatStr(tenths) == IntStr(tenths \div 10) \o <<".">> \o IntStr(tenths % 10)

\* the value of a text of digits
RECURSIVE DigitsValue(_)
DigitsValue(text) ==
  IF text = <<>> THEN 0
  ELSE 10 * DigitsValue(SubSeq(text, 1, Len(text) - 1)) + DigitValue(text[Len(text)])

\* int(text): the number, or ValueError for a text that is not all digits
ParseInt(text) ==
  IF text # <<>> /\ IsDigits(text) THEN Parsed(DigitsValue(text)) ELSE ValueError

\* float(text), in tenths: digits, then optionally a point and one fraction
\* digit; ValueError for any other text
ParseFloat(text) ==
  LET points == {i \in 1 .. Len(text) : text[i] = "."}
  IN IF points = {}
     THEN IF text # <<>> /\ IsDigits(text) THEN Parsed(10 * DigitsValue(text)) ELSE ValueError
     ELSE LET p == CHOOSE i \in points : TRUE
              whole == SubSeq(text, 1, p - 1)
              frac == SubSeq(text, p + 1, Len(text))
          IN IF /\ Cardinality(points) = 1
                /\ whole # <<>> /\ IsDigits(whole)
                /\ Len(frac) = 1 /\ IsDigits(frac)
             THEN Parsed(10 * DigitsValue(whole) + DigitsValue(frac))
             ELSE ValueError

Header == <<"product_name", "batch_quantity", "batch_cost_per_unit">>

\* mutant: the batches of a product are written newest first, as __str__ lists them
RECURSIVE product_rows_newest_first(_, _)
product_rows_newest_first(product, batches) ==
  IF batches = <<>> THEN <<>>
  ELSE <<<<product.product_name,
           IntStr(batches[Len(batches)].quantity),
           FloatStr(batches[Len(batches)].cost_per_unit)>>>>
       \o product_rows_newest_first(product, SubSeq(batches, 1, Len(batches) - 1))

\* the inner loop of save_to_csv: one row per batch, in storage order
RECURSIVE product_rows(_, _)
product_rows(product, batches) ==
  IF batches = <<>> THEN <<>>
  ELSE <<<<product.product_name,
           IntStr(Head(batches).quantity),
           FloatStr(Head(batches).cost_per_unit)>>>>
       \o product_rows(product, Tail(batches))

\* the outer loop of save_to_csv, over self.products.values()
RECURSIVE inventory_rows(_)
inventory_rows(prods) ==
  IF prods = <<>> THEN <<>>
  ELSE product_rows(Head(prods), Head(prods).batches) \o inventory_rows(Tail(prods))

\* save_to_csv; open() raises IOError when the path is not writable
save_to_csv(writable) ==
  /\ Call("save_to_csv", <<writable>>)
  /\ TotalBatches(products) <= MaxBatches
  /\ IF writable
     THEN /\ file' = <<Header>> \o inventory_rows(products)
          /\ saved' = products
          /\ out' = <<"saved">>
     ELSE /\ UNCHANGED <<file, saved>>
          /\ out' = <<"write error">>
  /\ ret' = None
  /\ UNCHANGED products

\* mutant: a row of an unregistered product is passed over without a warning
RECURSIVE load_loop_quiet(_, _, _)
load_loop_quiet(prods, rows, msgs) ==
  IF rows = <<>> THEN [products |-> prods, out |-> Append(msgs, "loaded")]
  ELSE LET row == Head(rows)
       IN IF Len(row) # 3
          THEN [products |-> prods, out |-> Append(msgs, "read error")]
          ELSE IF row[1] \notin Keys(prods)
          THEN load_loop_quiet(prods, Tail(rows), msgs)
          ELSE IF ~ParseInt(row[2]).ok \/ ~ParseFloat(row[3]).ok
          THEN [products |-> prods, out |-> Append(msgs, "read error")]
          ELSE load_loop_quiet([prods EXCEPT ![IndexOf(prods, row[1])] =
                                  add_batch(@, ParseInt(row[2]).value, ParseFloat(row[3]).value)],
                               Tail(rows), msgs)

\* mutant: a row that cannot be read is passed over and the loop goes on
RECURSIVE load_loop_skip_bad(_, _, _)
load_loop_skip_bad(prods, rows, msgs) ==
  IF rows = <<>> THEN [products |-> prods, out |-> Append(msgs, "loaded")]
  ELSE LET row == Head(rows)
       IN IF Len(row) # 3
          THEN load_loop_skip_bad(prods, Tail(rows), Append(msgs, "read error"))
          ELSE IF row[1] \notin Keys(prods)
          THEN load_loop_skip_bad(prods, Tail(rows), Append(msgs, "warning"))
          ELSE IF ~ParseInt(row[2]).ok \/ ~ParseFloat(row[3]).ok
          THEN load_loop_skip_bad(prods, Tail(rows), Append(msgs, "read error"))
          ELSE load_loop_skip_bad([prods EXCEPT ![IndexOf(prods, row[1])] =
                                     add_batch(@, ParseInt(row[2]).value, ParseFloat(row[3]).value)],
                                  Tail(rows), msgs)

\* mutant: a row of an unregistered product registers the product
RECURSIVE load_loop_register(_, _, _)
load_loop_register(prods, rows, msgs) ==
  IF rows = <<>> THEN [products |-> prods, out |-> Append(msgs, "loaded")]
  ELSE LET row == Head(rows)
       IN IF Len(row) # 3
          THEN [products |-> prods, out |-> Append(msgs, "read error")]
          ELSE IF ~ParseInt(row[2]).ok \/ ~ParseFloat(row[3]).ok
          THEN [products |-> prods, out |-> Append(msgs, "read error")]
          ELSE LET known == IF row[1] \in Keys(prods) THEN prods
                            ELSE Append(prods, Product(row[1], 0, 0))
               IN load_loop_register([known EXCEPT ![IndexOf(known, row[1])] =
                                        add_batch(@, ParseInt(row[2]).value,
                                                  ParseFloat(row[3]).value)],
                                     Tail(rows), msgs)

\* the row loop of load_from_csv: the products and the messages when the loop
\* is left, normally or by an exception
RECURSIVE load_loop(_, _, _)
load_loop(prods, rows, msgs) ==
  IF rows = <<>> THEN [products |-> prods, out |-> Append(msgs, "loaded")]
  ELSE LET row == Head(rows)
       IN IF Len(row) # 3
          THEN [products |-> prods, out |-> Append(msgs, "read error")]
          ELSE LET product_name == row[1]
                   quantity == ParseInt(row[2])
                   cost_per_unit == ParseFloat(row[3])
               IN IF product_name \in Keys(prods)
                  THEN IF ~quantity.ok \/ ~cost_per_unit.ok
                       THEN [products |-> prods, out |-> Append(msgs, "read error")]
                       ELSE load_loop([prods EXCEPT ![IndexOf(prods, product_name)] =
                                         add_batch(@, quantity.value, cost_per_unit.value)],
                                      Tail(rows), msgs)
                  ELSE load_loop(prods, Tail(rows), Append(msgs, "warning"))

\* mutant: the batches in memory are dropped before the file is opened
load_from_csv_reset ==
  /\ Call("load_from_csv", <<>>)
  /\ TotalBatches(products) <= MaxBatches
  /\ LET emptied == [i \in 1 .. Len(products) |-> [products[i] EXCEPT !.batches = <<>>]]
     IN IF file = NoFile
        THEN /\ products' = emptied
             /\ out' = <<"file not found">>
        ELSE IF file = <<>>
        THEN /\ products' = emptied
             /\ out' = <<"read error">>
        ELSE LET r == load_loop(emptied, Tail(file), <<>>)
             IN /\ products' = r.products
                /\ out' = r.out
  /\ ret' = None
  /\ UNCHANGED <<file, saved>>

load_from_csv ==
  /\ Call("load_from_csv", <<>>)
  /\ TotalBatches(products) <= MaxBatches
  /\ IF file = NoFile
     THEN /\ products' = products
          /\ out' = <<"file not found">>
     ELSE IF file = <<>>
     THEN /\ products' = products
          /\ out' = <<"read error">>
     ELSE LET r == load_loop(products, Tail(file), <<>>)
          IN /\ products' = r.products
             /\ out' = r.out
  /\ ret' = None
  /\ UNCHANGED <<file, saved>>

\* rows of a file that was not written by save_to_csv
RowA == <<"A", <<"1">>, <<"2", ".", "0">>>>
RowB == <<"B", <<"2">>, <<"1", "2", ".", "5">>>>
ShortRow == <<"A", <<"1">>>>                          \* two fields
BadQuantityRow == <<"A", <<"2", ".", "5">>, <<"2", ".", "0">>>>   \* int("2.5") fails
BadCostRow == <<"A", <<"1">>, <<"x">>>>               \* float("x") fails

\* the files load_from_csv may find that another program or an editor wrote:
\* a malformed row between two good rows, or a file of no lines at all
ExternalFiles ==
  {<<Header, RowA, bad, RowB>> : bad \in {ShortRow, BadQuantityRow, BadCostRow}}
  \cup {<<>>}

\* the file is put on disk from outside the program
external_file(contents) ==
  /\ Call("external file", <<contents>>)
  /\ file' = contents
  /\ saved' = None
  /\ ret' = None
  /\ out' = <<>>
  /\ UNCHANGED products

\* the program ends and is run again: a new InventoryManager, the file stays
restart ==
  /\ Call("__init__", <<>>)
  /\ products' = <<>>
  /\ ret' = None
  /\ out' = <<>>
  /\ UNCHANGED <<file, saved>>

\* ---------------------------------------------------------------- direct Product calls
product_add_batch(product_name, quantity, cost_per_unit) ==
  /\ Call("add_batch", <<product_name, quantity, cost_per_unit>>)
  /\ product_name \in Keys(products)
  /\ Len(Get(products, product_name).batches) < MaxStack
  /\ products' = [products EXCEPT ![IndexOf(products, product_name)] =
                    add_batch(@, quantity, cost_per_unit)]
  /\ ret' = None
  /\ out' = <<>>
  /\ UNCHANGED <<file, saved>>

product_fulfill_demand(product_name, demand) ==
  /\ Call("fulfill_demand", <<product_name, demand>>)
  /\ product_name \in Keys(products)
  /\ LET r == fulfill_demand(Get(products, product_name), demand)
     IN /\ products' = [products EXCEPT ![IndexOf(products, product_name)] = r.self]
        /\ ret' = r.ret
  /\ out' = <<>>
  /\ UNCHANGED <<file, saved>>

\* two calls of Product.fulfill_demand, one after the other
product_fulfill_demand_twice(product_name, first, second) ==
  /\ Call("fulfill_demand twice", <<product_name, first, second>>)
  /\ product_name \in Keys(products)
  /\ LET r1 == fulfill_demand(Get(products, product_name), first)
         r2 == fulfill_demand(r1.self, second)
     IN /\ products' = [products EXCEPT ![IndexOf(products, product_name)] = r2.self]
        /\ ret' = <<r1.ret, r2.ret>>
  /\ out' = <<>>
  /\ UNCHANGED <<file, saved>>

product_calculate_holding_cost(product_name) ==
  /\ Call("calculate_holding_cost", <<product_name>>)
  /\ product_name \in Keys(products)
  /\ ret' = calculate_holding_cost(Get(products, product_name))
  /\ out' = <<>>
  /\ UNCHANGED <<products, file, saved>>

\* ---------------------------------------------------------------- specifications
\* the demand dicts simulate_day is called with: every dict over Names with
\* amounts in Demands, its items in each insertion order
DemandDicts ==
  {<<>>}
  \cup {<<<<n, d>>>> : n \in Names, d \in Demands}
  \cup {<<<<n1, d1>>, <<n2, d2>>>> :
          <<n1, n2, d1, d2>> \in {t \in Names \X Names \X Demands \X Demands : t[1] # t[2]}}

\* the manager, driven through its public operations (a call is made only
\* between calls: each disjunct repeats the guard of Call before it draws
\* the arguments)
Next ==
  \/ /\ pc = "idle"
     /\ \E n \in Names, hp \in ProductParams : add_product(n, hp[1], hp[2])
  \/ /\ pc = "idle"
     /\ \E n \in Names, q \in Quantities, c \in Costs : restock_product(n, q, c)
  \/ /\ pc = "idle"
     /\ \E n \in Names, d \in Demands : product_fulfill_demand(n, d)
  \/ /\ pc = "idle"
     /\ \E demand \in DemandDicts : simulate_day(demand)
  \/ Resume

Spec == Init /\ [][Next]_vars

\* one Product object on its own, driven through its methods
InitProduct ==
  /\ \E hp \in ProductParams : products = <<Product("A", hp[1], hp[2])>>
  /\ file = NoFile
  /\ saved = None
  /\ pc = "idle"
  /\ op = NoCall
  /\ pre = <<>>
  /\ ret = None
  /\ out = <<>>

NextProduct ==
  \/ \E q \in Quantities, c \in Costs : product_add_batch("A", q, c)
  \/ \E d \in Demands : product_fulfill_demand("A", d)
  \/ \E first \in Demands, second \in Demands :
       product_fulfill_demand_twice("A", first, second)
  \/ product_calculate_holding_cost("A")
  \/ Resume

SpecProduct == InitProduct /\ [][NextProduct]_vars

\* neither file operation reads holding_cost or stockout_penalty
CsvParams == <<1, 3>>

\* the manager and its CSV file: stock is built and depleted, saved, and
\* loaded back by this run of the program or by a later one
NextCsv ==
  \/ \E n \in Names : add_product(n, CsvParams[1], CsvParams[2])
  \/ /\ pc = "idle" /\ file = NoFile
     /\ \E n \in Names, q \in Quantities, c \in Costs : restock_product(n, q, c)
  \/ /\ pc = "idle" /\ file = NoFile
     /\ \E n \in Names, d \in Demands : product_fulfill_demand(n, d)
  \/ /\ pc = "idle" /\ file = NoFile
     /\ \E demand \in DemandDicts : simulate_day(demand)
  \/ \E writable \in BOOLEAN : save_to_csv(writable)
  \/ load_from_csv
  \/ /\ pc = "idle" /\ file = NoFile
     /\ \E contents \in ExternalFiles : external_file(contents)
  \/ restart
  \/ Resume

SpecCsv == Init /\ [][NextCsv]_vars

\* ---------------------------------------------------------------- properties
Returned(name) == pc = "returned" /\ op.name = name

\* total quantity on hand in a batch sequence
RECURSIVE Stock(_)
Stock(batches) ==
  IF batches = <<>> THEN 0 ELSE Head(batches).quantity + Stock(Tail(batches))

AllPositive(batches) == \A i \in 1 .. Len(batches) : batches[i].quantity > 0

Reverse(seq) == [i \in 1 .. Len(seq) |-> seq[Len(seq) + 1 - i]]

\* the product a direct Product call or a restock was made on, before and after
PreProduct == Get(pre, op.args[1])
PostProduct == Get(products, op.args[1])

\* C1: a fulfill_demand(d) with d <= total stock on a product whose batches all
\* have positive quantity (a product built by restocks) returns 0, takes
\* exactly d units off the total, and leaves a prefix of the original batches
\* in which only the last remaining batch may have a smaller quantity (LIFO).
C1_LifoWithinStock ==
  (/\ Returned("fulfill_demand")
   /\ AllPositive(PreProduct.batches)
   /\ op.args[2] <= Stock(PreProduct.batches))
  => LET old == PreProduct.batches
         new == PostProduct.batches
     IN /\ ret = 0
        /\ Stock(new) = Stock(old) - op.args[2]
        /\ Len(new) <= Len(old)
        /\ \A i \in 1 .. Len(new) :
             /\ new[i].cost_per_unit = old[i].cost_per_unit
             /\ i < Len(new) => new[i] = old[i]
             /\ new[i].quantity <= old[i].quantity

\* a demand that empties the newest batch and takes part of the one below it
C1_Witness ==
  /\ Returned("fulfill_demand")
  /\ AllPositive(PreProduct.batches)
  /\ Len(PreProduct.batches) = 3
  /\ Len(PostProduct.batches) = 2
  /\ PostProduct.batches[2].quantity < PreProduct.batches[2].quantity
  /\ PostProduct.batches[2].quantity > 0

\* C2: a fulfill_demand(d) with d greater than the total stock empties the
\* batch sequence and returns (d - total stock) * stockout_penalty.
C2_StockoutCost ==
  (/\ Returned("fulfill_demand")
   /\ op.args[2] > Stock(PreProduct.batches))
  => /\ PostProduct.batches = <<>>
     /\ ret = (op.args[2] - Stock(PreProduct.batches)) * PreProduct.stockout_penalty

\* a demand larger than the stock of two batches
C2_Witness ==
  /\ Returned("fulfill_demand")
  /\ Len(PreProduct.batches) >= 2
  /\ Stock(PreProduct.batches) > 0
  /\ op.args[2] > Stock(PreProduct.batches)
  /\ ret > 0

\* C3: no batch of any product has quantity 0.
C3_NoZeroBatch ==
  \A i \in 1 .. Len(products) :
    \A j \in 1 .. Len(products[i].batches) : products[i].batches[j].quantity # 0

\* C4: fulfill_demand(0) leaves every product as it was and returns 0.
C4_ZeroDemandNoOp ==
  (Returned("fulfill_demand") /\ op.args[2] = 0)
  => (products = pre /\ ret = 0)

\* fulfill_demand(0) on a product that holds batches, the newest one of quantity 0
C4_Witness ==
  /\ Returned("fulfill_demand")
  /\ op.args[2] = 0
  /\ Len(PreProduct.batches) >= 2
  /\ PreProduct.batches[Len(PreProduct.batches)].quantity = 0

\* C7: calculate_holding_cost() is (sum of the batch quantities) * holding_cost,
\* the same for the batches in reverse order, and it modifies nothing.
C7_HoldingCost ==
  Returned("calculate_holding_cost")
  => /\ ret = Stock(PreProduct.batches) * PreProduct.holding_cost
     /\ ret = calculate_holding_cost([PreProduct EXCEPT !.batches = Reverse(@)])
     /\ products = pre

\* the holding cost of batches that differ in quantity and in cost_per_unit
C7_Witness ==
  /\ Returned("calculate_holding_cost")
  /\ Len(PreProduct.batches) >= 2
  /\ PreProduct.batches[1].quantity # PreProduct.batches[2].quantity
  /\ PreProduct.batches[1].cost_per_unit # PreProduct.batches[2].cost_per_unit
  /\ ret > 0

\* sum of calculate_holding_cost() over the first n products of prods
RECURSIVE HoldingOver(_, _)
HoldingOver(prods, n) ==
  IF n = 0 THEN 0 ELSE HoldingOver(prods, n - 1) + calculate_holding_cost(prods[n])

\* sum of the fulfill_demand results of the registered names among the first n items
RECURSIVE StockoutOver(_, _, _)
StockoutOver(prods, items, n) ==
  IF n = 0 THEN 0
  ELSE StockoutOver(prods, items, n - 1)
       + (IF items[n][1] \in Keys(prods)
          THEN fulfill_demand(Get(prods, items[n][1]), items[n][2]).ret
          ELSE 0)

\* C5: the holding cost simulate_day returns is the sum of the products'
\* holding costs on the stock at the start of the call, whatever the demand
\* mapping names.
C5_HoldingBeforeDepletion ==
  Returned("simulate_day") => ret[1] = HoldingOver(pre, Len(pre))

\* a day that depletes one product and leaves a stocked product out of the mapping
C5_Witness ==
  /\ Returned("simulate_day")
  /\ Len(pre) = 2
  /\ Len(op.args[1]) = 1
  /\ \A i \in 1 .. 2 : Stock(pre[i].batches) > 0
  /\ products # pre
  /\ ret[1] > 0

\* C6: the stockout cost simulate_day returns is the sum of the fulfill_demand
\* results of the names of the mapping that are registered; the other names
\* are skipped: no product is created, and a mapping of unregistered names
\* only changes nothing.
C6_StockoutOverKnownNames ==
  Returned("simulate_day")
  => LET items == op.args[1]
     IN /\ ret[2] = StockoutOver(pre, items, Len(items))
        /\ Len(products) = Len(pre)
        /\ Keys(products) = Keys(pre)
        /\ (\A k \in 1 .. Len(items) : items[k][1] \notin Keys(pre)) => products = pre

\* a mapping that names an unregistered product before a registered one that runs out
C6_Witness ==
  /\ Returned("simulate_day")
  /\ Len(op.args[1]) = 2
  /\ op.args[1][1][1] \notin Keys(pre)
  /\ op.args[1][2][1] \in Keys(pre)
  /\ Stock(Get(pre, op.args[1][2][1]).batches) > 0
  /\ ret[2] > 0

\* C9: add_product with a registered name changes nothing: the product keeps
\* its parameters and batches and the registered names stay the same.
C9_DuplicateAddNoOp ==
  (Returned("add_product") /\ op.args[1] \in Keys(pre))
  => (products = pre /\ ret = None)

\* a second registration, with other parameters, of a product that holds a batch
C9_Witness ==
  /\ Returned("add_product")
  /\ op.args[1] \in Keys(pre)
  /\ PreProduct.holding_cost # op.args[2]
  /\ PreProduct.stockout_penalty # op.args[3]
  /\ PreProduct.batches # <<>>

\* C10: restock_product on a registered name appends the one batch (q, c) to
\* the tail of that product and changes nothing else; on an unregistered name
\* it changes nothing and creates no product.
C10_RestockAppends ==
  Returned("restock_product")
  => IF op.args[1] \in Keys(pre)
     THEN /\ Len(products) = Len(pre)
          /\ \A i \in 1 .. Len(pre) :
               IF pre[i].product_name = op.args[1]
               THEN LET old == pre[i].batches
                        new == products[i].batches
                    IN /\ Len(new) = Len(old) + 1
                       /\ SubSeq(new, 1, Len(old)) = old
                       /\ new[Len(new)] = Batch(op.args[2], op.args[3])
                       /\ [products[i] EXCEPT !.batches = old] = pre[i]
               ELSE products[i] = pre[i]
     ELSE products = pre /\ ret = None

\* a restock of a name that is not registered, in a manager that holds stock
C10_Witness ==
  /\ Returned("restock_product")
  /\ op.args[1] \notin Keys(pre)
  /\ pre # <<>>
  /\ TotalBatches(pre) > 0

\* C8: after save_to_csv, load_from_csv into a manager that has the same names
\* registered and no batches gives every product the batch sequence it had
\* when it was saved: same order, quantities and costs.
C8_RoundTrip ==
  (/\ Returned("load_from_csv")
   /\ saved # None
   /\ Keys(pre) = Keys(saved)
   /\ TotalBatches(pre) = 0)
  => \A name \in Keys(saved) : Get(products, name).batches = Get(saved, name).batches

\* a load, by a later run that registered the names in another order, of a
\* saved product with two batches that differ in quantity and in cost
C8_Witness ==
  /\ Returned("load_from_csv")
  /\ saved # None
  /\ Len(saved) = 2
  /\ Keys(pre) = Keys(saved)
  /\ pre[1].product_name # saved[1].product_name
  /\ TotalBatches(pre) = 0
  /\ \E i \in 1 .. 2 :
       /\ Len(saved[i].batches) = 2
       /\ saved[i].batches[1].quantity # saved[i].batches[2].quantity
       /\ saved[i].batches[1].cost_per_unit # saved[i].batches[2].cost_per_unit
  /\ TotalBatches(products) = 2

\* ---- load_from_csv ----
\* the data rows of the file load_from_csv read (the header is skipped)
DataRows == IF file = NoFile \/ file = <<>> THEN <<>> ELSE Tail(file)

\* a row is malformed: a wrong number of fields, or a quantity or a cost that
\* does not parse
Malformed(row) ==
  Len(row) # 3 \/ ~ParseInt(row[2]).ok \/ ~ParseFloat(row[3]).ok

\* a row stops the load: a wrong number of fields, or a quantity or a cost that
\* does not parse in a row of a registered product
Stops(row, prods) ==
  Len(row) # 3
  \/ (row[1] \in Keys(prods) /\ (~ParseInt(row[2]).ok \/ ~ParseFloat(row[3]).ok))

FirstMalformed(rows) ==
  IF \E k \in 1 .. Len(rows) : Malformed(rows[k])
  THEN CHOOSE k \in 1 .. Len(rows) :
         Malformed(rows[k]) /\ \A j \in 1 .. k - 1 : ~Malformed(rows[j])
  ELSE Len(rows) + 1

FirstStop(rows, prods) ==
  IF \E k \in 1 .. Len(rows) : Stops(rows[k], prods)
  THEN CHOOSE k \in 1 .. Len(rows) :
         Stops(rows[k], prods) /\ \A j \in 1 .. k - 1 : ~Stops(rows[j], prods)
  ELSE Len(rows) + 1

\* the batches of the rows among `chosen` (row numbers) that name the product, in file order
RECURSIVE RowBatches(_, _, _, _)
RowBatches(name, rows, chosen, n) ==
  IF n = 0 THEN <<>>
  ELSE RowBatches(name, rows, chosen, n - 1)
       \o (IF n \in chosen /\ rows[n][1] = name
           THEN <<Batch(ParseInt(rows[n][2]).value, ParseFloat(rows[n][3]).value)>>
           ELSE <<>>)

\* every product is as before the call, with the batches of the chosen rows appended
LoadedExactly(chosen) ==
  /\ Len(products) = Len(pre)
  /\ \A i \in 1 .. Len(pre) :
       products[i] = [pre[i] EXCEPT !.batches =
                        @ \o RowBatches(pre[i].product_name, DataRows, chosen, Len(DataRows))]

\* C11 as claimed: load_from_csv registers no product, appends every
\* well-formed row of a registered name to the tail of its product in file
\* order, and skips every row of an unregistered name.
C11_EveryWellFormedRowLoaded ==
  Returned("load_from_csv")
  => LoadedExactly({k \in 1 .. Len(DataRows) : ~Malformed(DataRows[k])})

\* C11 as amended: load_from_csv registers no product; it appends, in file
\* order and after the batches already there, the rows of registered names
\* that come before the first row that stops the load, and skips the rows of
\* unregistered names.
C11_RowsLoadedUpToStop ==
  Returned("load_from_csv")
  => /\ Keys(products) = Keys(pre)
     /\ LoadedExactly(1 .. FirstStop(DataRows, pre) - 1)

\* a load, onto a product that holds a batch, of a file with a row of a
\* registered and a row of an unregistered name
C11_Witness ==
  /\ Returned("load_from_csv")
  /\ FirstStop(DataRows, pre) > Len(DataRows)
  /\ TotalBatches(pre) > 0
  /\ TotalBatches(products) > TotalBatches(pre)
  /\ \E k \in 1 .. Len(DataRows) : DataRows[k][1] \notin Keys(pre)

\* C12: load_from_csv on a missing file and save_to_csv on a path that cannot
\* be written return normally, report the error and leave every product as
\* it was.
C12_IoFailureRecovered ==
  /\ (Returned("load_from_csv") /\ file = NoFile)
       => (products = pre /\ ret = None /\ out = <<"file not found">>)
  /\ (Returned("save_to_csv") /\ ~op.args[1])
       => (products = pre /\ ret = None /\ out = <<"write error">>)

\* a load of a missing file by a manager that holds stock
C12_Witness ==
  /\ Returned("load_from_csv")
  /\ file = NoFile
  /\ TotalBatches(pre) = MaxBatches
  /\ out = <<"file not found">>

\* the number of messages msg among the first n of msgs
RECURSIVE CountOf(_, _, _)
CountOf(msg, msgs, n) ==
  IF n = 0 THEN 0
  ELSE CountOf(msg, msgs, n - 1) + (IF msgs[n] = msg THEN 1 ELSE 0)

UnknownDemand ==
  \E k \in 1 .. Len(op.args[1]) : op.args[1][k][1] \notin Keys(pre)

UnknownRows ==
  {k \in 1 .. FirstStop(DataRows, pre) - 1 : DataRows[k][1] \notin Keys(pre)}

\* what each reference to an unregistered product has in common: a restock is
\* reported and changes nothing, a row of the file is reported once per row
UnknownRestockAndRowReported ==
  /\ (Returned("restock_product") /\ op.args[1] \notin Keys(pre))
       => (out = <<"not found">> /\ products = pre /\ ret = None)
  /\ (Returned("load_from_csv") /\ file # NoFile)
       => (/\ CountOf("warning", out, Len(out)) = Cardinality(UnknownRows)
           /\ Keys(products) = Keys(pre)
           /\ ret = None)

\* C17 as claimed: a restock, a demand-mapping entry and a row of the file that
\* name an unregistered product are each reported and skipped.
C17_EveryUnknownReported ==
  /\ UnknownRestockAndRowReported
  /\ (Returned("simulate_day") /\ UnknownDemand) => out # <<>>

\* C17 as amended: a restock and a row of the file that name an unregistered
\* product are reported and skipped; a demand-mapping entry that names one is
\* skipped with no message; none of them fails.
C17_UnknownReportedButDemandSilent ==
  /\ UnknownRestockAndRowReported
  /\ (Returned("simulate_day") /\ UnknownDemand)
       => (out = <<>> /\ Keys(products) = Keys(pre) /\ Len(ret) = 2)

\* a load that warns about a row of an unregistered product and loads another row
C17_Witness ==
  /\ Returned("load_from_csv")
  /\ UnknownRows # {}
  /\ TotalBatches(products) > TotalBatches(pre)
  /\ CountOf("warning", out, Len(out)) > 0

\* C20 as claimed: when row k is the first malformed row, the call returns
\* normally, the rows before k of registered names are appended and no row
\* after k is loaded.
C20_NothingAfterMalformedRow ==
  (/\ Returned("load_from_csv")
   /\ FirstMalformed(DataRows) <= Len(DataRows))
  => (ret = None /\ LoadedExactly(1 .. FirstMalformed(DataRows) - 1))

\* C20 as amended: when row k is the first row with a wrong number of fields,
\* or with a quantity or cost that does not parse in a row of a registered
\* name, the call returns normally with a read error, the rows before k of
\* registered names stay appended and no row after k is loaded; a row of an
\* unregistered name whose numbers do not parse is skipped with a warning and
\* the load goes on.
C20_NothingAfterStoppingRow ==
  (/\ Returned("load_from_csv")
   /\ file # NoFile /\ file # <<>>)
  => LET k == FirstStop(DataRows, pre)
     IN /\ ret = None
        /\ LoadedExactly(1 .. k - 1)
        /\ out[Len(out)] = (IF k <= Len(DataRows) THEN "read error" ELSE "loaded")
        /\ Len(out) = Cardinality(UnknownRows) + 1

\* a load stopped at its second row, after a row that was appended and before
\* a row of a registered name
C20_Witness ==
  /\ Returned("load_from_csv")
  /\ Len(DataRows) = 3
  /\ FirstStop(DataRows, pre) = 2
  /\ DataRows[3][1] \in Keys(pre)
  /\ TotalBatches(products) = TotalBatches(pre) + 1
  /\ out = <<"read error">>

\* ---- depletion ----
\* C13: no batch of any product has a negative quantity.
C13_QuantityNeverNegative ==
  \A i \in 1 .. Len(products) :
    \A j \in 1 .. Len(products[i].batches) : products[i].batches[j].quantity >= 0

\* a day that empties the newest batch of a product and takes part of the one below
C13_Witness ==
  /\ Returned("simulate_day")
  /\ \E i \in 1 .. Len(pre) :
       /\ Len(pre[i].batches) = 2
       /\ Len(products[i].batches) = 1
       /\ products[i].batches[1].quantity < pre[i].batches[1].quantity
       /\ products[i].batches[1].quantity > 0

\* the batch the loop is at when the need left equals what that batch holds
ExactTail(batches, demand) ==
  {k \in 1 .. Len(batches) :
     /\ batches[k].quantity > 0
     /\ Stock(SubSeq(batches, k, Len(batches))) = demand}

\* C14: when the loop comes to a batch whose quantity equals the need that is
\* left (more than 0), that batch is removed, not left with quantity 0; the
\* demand is met (0 is returned) and the batches below are as they were.
C14_ExactTailRemoved ==
  (Returned("fulfill_demand") /\ ExactTail(PreProduct.batches, op.args[2]) # {})
  => LET k == CHOOSE k \in ExactTail(PreProduct.batches, op.args[2]) : TRUE
     IN /\ PostProduct.batches = SubSeq(PreProduct.batches, 1, k - 1)
        /\ ret = 0

\* a demand that takes all of the two newest batches and leaves the oldest
C14_Witness ==
  /\ Returned("fulfill_demand")
  /\ Len(PreProduct.batches) = 3
  /\ AllPositive(PreProduct.batches)
  /\ ExactTail(PreProduct.batches, op.args[2]) = {2}
  /\ Len(PostProduct.batches) = 1

\* C16: the loop of fulfill_demand ends after at most as many iterations as
\* there are batches at entry; each iteration removes the newest batch or
\* meets the demand; and each iteration but the last leaves fewer batches, so
\* no batch is looked at twice.
C16_SinglePass ==
  Returned("fulfill_demand")
  => LET demand == op.args[2]
         t == fulfill_trace(PreProduct.batches, 0, demand)
         last == t[Len(t)]
     IN /\ Len(t) - 1 <= Len(PreProduct.batches)
        /\ last.batches = PostProduct.batches
        /\ ~(last.fulfilled < demand /\ last.batches # <<>>)
        /\ \A k \in 1 .. Len(t) - 1 :
             /\ \/ t[k + 1].batches = SubSeq(t[k].batches, 1, Len(t[k].batches) - 1)
                \/ t[k + 1].fulfilled = demand
             /\ k < Len(t) - 1 => Len(t[k + 1].batches) < Len(t[k].batches)

\* a demand met in three iterations over three batches, the last one kept
C16_Witness ==
  /\ Returned("fulfill_demand")
  /\ Len(PreProduct.batches) = 3
  /\ Len(fulfill_trace(PreProduct.batches, 0, op.args[2])) = 4
  /\ Len(PostProduct.batches) = 1
  /\ ret = 0

\* C18: on a product whose batches all have positive quantity,
\* fulfill_demand(a) followed by fulfill_demand(b) leaves the batches that one
\* fulfill_demand(a + b) leaves, and the two stockout costs add up to its cost.
C18_DemandsAdd ==
  (Returned("fulfill_demand twice") /\ AllPositive(PreProduct.batches))
  => LET once == fulfill_demand(PreProduct, op.args[2] + op.args[3])
     IN /\ PostProduct.batches = once.self.batches
        /\ ret[1] + ret[2] = once.ret

\* a first demand that takes part of the stock and a second that runs it out
C18_Witness ==
  /\ Returned("fulfill_demand twice")
  /\ AllPositive(PreProduct.batches)
  /\ Len(PreProduct.batches) >= 2
  /\ op.args[2] > 0
  /\ op.args[2] < Stock(PreProduct.batches)
  /\ ret[1] = 0
  /\ ret[2] > 0

Min(a, b) == IF a <= b THEN a ELSE b

\* C15: a batch that stays in a sequence keeps its place and its
\* cost_per_unit, and its quantity does not grow; restock_product,
\* load_from_csv, add_product and save_to_csv leave the batches that were
\* there as they were.
C15_BatchesOnlyDepleted ==
  (/\ pc = "returned"
   /\ op.name \in {"fulfill_demand", "simulate_day", "restock_product",
                   "load_from_csv", "add_product", "save_to_csv"})
  => \A i \in 1 .. Len(pre) :
       LET old == pre[i].batches
           new == products[i].batches
       IN /\ \A j \in 1 .. Min(Len(old), Len(new)) :
               /\ new[j].cost_per_unit = old[j].cost_per_unit
               /\ new[j].quantity <= old[j].quantity
          /\ op.name \in {"fulfill_demand", "simulate_day"} => Len(new) <= Len(old)
          /\ op.name \notin {"fulfill_demand", "simulate_day"}
               => (Len(new) >= Len(old) /\ SubSeq(new, 1, Len(old)) = old)

\* a restock onto a product whose batch differs from the new one in quantity and cost
C15_Witness ==
  /\ Returned("restock_product")
  /\ op.args[1] \in Keys(pre)
  /\ Len(PreProduct.batches) = 1
  /\ PreProduct.batches[1].quantity # op.args[2]
  /\ PreProduct.batches[1].cost_per_unit # op.args[3]

\* the demand the mapping holds for a name, 0 when it holds none
DemandFor(items, name) ==
  IF \E k \in 1 .. Len(items) : items[k][1] = name
  THEN items[CHOOSE k \in 1 .. Len(items) : items[k][1] = name][2]
  ELSE 0

\* C19: simulate_day changes the batches of no product but the registered ones
\* the mapping gives a positive demand; holding_cost, stockout_penalty, the
\* names and their order stay as they were.
C19_DepletionPerProduct ==
  Returned("simulate_day")
  => /\ Len(products) = Len(pre)
     /\ \A i \in 1 .. Len(pre) :
          /\ [products[i] EXCEPT !.batches = pre[i].batches] = pre[i]
          /\ DemandFor(op.args[1], pre[i].product_name) = 0 => products[i] = pre[i]

\* a day that depletes the second product and leaves the first, which holds
\* stock and is not in the mapping, as it was
C19_Witness ==
  /\ Returned("simulate_day")
  /\ Len(pre) = 2
  /\ Len(op.args[1]) = 1
  /\ op.args[1][1][1] = pre[2].product_name
  /\ products[2] # pre[2]
  /\ pre[1].batches # <<>>
  /\ products[1] = pre[1]

====
